---- MODULE Spec2Model ----
(***************************************************************************)
(* A model of package assert (src/assert/assertions.go): the equality      *)
(* helpers, the numeric, containment and emptiness assertions, the call    *)
(* site tracer, the failure reporter and the diff of two values, with the  *)
(* calls of Equal that several tests make at the same time.                *)
(*                                                                         *)
(* A Go interface{} value is a record [type, val]: its dynamic type (the   *)
(* Go type's name) and a payload whose shape is fixed by the type.  The    *)
(* untyped nil interface is the value of type "nil".  A string is the      *)
(* sequence of its characters.                                             *)
(***************************************************************************)
EXTENDS Integers, Sequences, FiniteSets, TLC

VARIABLES
    pc,             \* "idle" | "returned" | "faulted": the test goroutine's position
    call,           \* the library call last made: [op, args...]
    ret,            \* what that call did: [res, errs, ...]
    errorfCalls,    \* calls of t.Errorf on the sink so far
    falseReturns,   \* calls that returned false so far
    nCalls,         \* library calls made so far
    printLocation,  \* whether TESTIFY_PRINT_LOCATION is "1" in the environment
    sortKeys,       \* spew.Config.SortKeys, a variable of package spew
    tests           \* the tests that call Equal at the same time, each on its own sink

vars == <<pc, call, ret, errorfCalls, falseReturns, nCalls, printLocation, sortKeys, tests>>

\* ------------------------------------------------------------------ bounds

\* The number of library calls one test makes on its sink.
MaxCalls == 2
\* The depth of the caller's stack below the library's own frames.
MaxDepth == 3

\* ------------------------------------------------------------- Go's types

SignedTypes == {"int", "int8", "int16", "int32", "int64"}
UnsignedTypes == {"uint", "uint8", "uint16", "uint32", "uint64"}
IntegerTypes == SignedTypes \cup UnsignedTypes
FloatTypes == {"float32", "float64"}
NumericTypes == IntegerTypes \cup FloatTypes
SliceTypes == {"[]float64", "[]interface {}"}
ArrayTypes == {"[2]int"}
MapTypes == {"map[string]string"}
ChanTypes == {"chan int"}
PtrTypes == {"*int", "*Point", "*time.Time", "*errors.errorString"}
StructTypes == {"Point", "time.Time", "errors.errorString"}

\* reflect.Kind, the widths and signedness of the integer kinds merged.
Kind(T) ==
    CASE T = "nil" -> "Invalid"
      [] T = "bool" -> "Bool"
      [] T = "string" -> "String"
      [] T \in SignedTypes -> "Int"
      [] T \in UnsignedTypes -> "Uint"
      [] T \in FloatTypes -> "Float"
      [] T \in SliceTypes -> "Slice"
      [] T \in ArrayTypes -> "Array"
      [] T \in MapTypes -> "Map"
      [] T \in ChanTypes -> "Chan"
      [] T \in PtrTypes -> "Ptr"
      [] T \in StructTypes -> "Struct"

\* The bits of an integer type (int and uint are 64 bits wide).
Width(T) ==
    CASE T \in {"int8", "uint8"} -> 8
      [] T \in {"int16", "uint16"} -> 16
      [] T \in {"int32", "uint32"} -> 32
      [] T \in {"int", "uint", "int64", "uint64"} -> 64

\* -------------------------------------------------------------- Go's values

Nil == [type |-> "nil", val |-> 0]
IntV(T, n) == [type |-> T, val |-> n]
\* A float is a number, a NaN or an infinity: cls is "num", "nan", "inf" or "ninf".
FloatV(T, c, n) == [type |-> T, val |-> [cls |-> c, n |-> n]]
Num(n) == FloatV("float64", "num", n)
NaN == FloatV("float64", "nan", 0)
PosInf == FloatV("float64", "inf", 0)
StrV(s) == [type |-> "string", val |-> s]
BoolV(b) == [type |-> "bool", val |-> b]
\* A slice: nil or not, and its elements (interface values).
SliceV(T, isNil, elems) == [type |-> T, val |-> [isNil |-> isNil, elems |-> elems]]
ArrayV(T, elems) == [type |-> T, val |-> elems]
\* A map: nil or not, and its entries <<key, value>>, the keys distinct.
MapV(T, isNil, entries) == [type |-> T, val |-> [isNil |-> isNil, entries |-> entries]]
\* A channel: its identity (0: the nil channel) and the elements queued in it.
ChanV(T, id, n) == [type |-> T, val |-> [id |-> id, len |-> n]]
\* A pointer: its address (0: nil) and the value it points to.
PtrV(T, addr, elem) == [type |-> T, val |-> [addr |-> addr, elem |-> elem]]
StructV(T, fields) == [type |-> T, val |-> fields]
\* time.Time{sec, nsec}
TimeV(sec, nsec) == StructV("time.Time", <<IntV("int64", sec), IntV("int32", nsec)>>)
PointV(x, y) == StructV("Point", <<IntV("int", x), IntV("int", y)>>)

\* The text reflect.Value.String() gives for a value that is not a string.
IntValueText == <<"<", "i", "n", "t", " ", "V", "a", "l", "u", "e", ">">>

IsNilIface(v) == v.type = "nil"

\* reflect.Zero(T).Interface(): the zero value of a type.
RECURSIVE ZeroOf(_)
ZeroOf(T) ==
    CASE Kind(T) \in {"Int", "Uint"} -> IntV(T, 0)
      [] Kind(T) = "Float" -> FloatV(T, "num", 0)
      [] Kind(T) = "String" -> StrV(<<>>)
      [] Kind(T) = "Bool" -> BoolV(FALSE)
      [] Kind(T) = "Slice" -> SliceV(T, TRUE, <<>>)
      [] Kind(T) = "Array" -> ArrayV(T, <<ZeroOf("int"), ZeroOf("int")>>)
      [] Kind(T) = "Map" -> MapV(T, TRUE, <<>>)
      [] Kind(T) = "Chan" -> ChanV(T, 0, 0)
      [] T = "*int" -> PtrV(T, 0, ZeroOf("int"))
      [] T = "*Point" -> PtrV(T, 0, PointV(0, 0))
      [] T = "*time.Time" -> PtrV(T, 0, TimeV(0, 0))
      [] T = "*errors.errorString" -> PtrV(T, 0, StrV(<<>>))
      [] T = "Point" -> PointV(0, 0)
      [] T = "time.Time" -> TimeV(0, 0)

\* Go's == on two floats: a NaN equals nothing.
FloatEq(x, y) ==
    \/ x.cls = "num" /\ y.cls = "num" /\ x.n = y.n
    \/ x.cls = y.cls /\ x.cls \in {"inf", "ninf"}

\* Go's == on two interface values, one of which holds a comparable type:
\* the dynamic types are identical and the payloads equal.
IfaceEq(a, b) ==
    /\ a.type = b.type
    /\ IF Kind(a.type) = "Float" THEN FloatEq(a.val, b.val) ELSE a.val = b.val

\* reflect.DeepEqual on two interface values.
RECURSIVE DeepEqual(_, _)
DeepEqual(a, b) ==
    IF a.type # b.type THEN FALSE
    ELSE CASE Kind(a.type) = "Invalid" -> TRUE
           [] Kind(a.type) \in {"Int", "Uint", "String", "Bool"} -> a.val = b.val
           [] Kind(a.type) = "Float" -> FloatEq(a.val, b.val)
           [] Kind(a.type) = "Slice" ->
                /\ a.val.isNil = b.val.isNil
                /\ Len(a.val.elems) = Len(b.val.elems)
                /\ \A i \in 1..Len(a.val.elems) :
                      DeepEqual(a.val.elems[i], b.val.elems[i])
           [] Kind(a.type) \in {"Array", "Struct"} ->
                \A i \in 1..Len(a.val) : DeepEqual(a.val[i], b.val[i])
           [] Kind(a.type) = "Map" ->
                /\ a.val.isNil = b.val.isNil
                /\ Len(a.val.entries) = Len(b.val.entries)
                /\ \A i \in 1..Len(a.val.entries) :
                      \E j \in 1..Len(b.val.entries) :
                          /\ IfaceEq(a.val.entries[i][1], b.val.entries[j][1])
                          /\ DeepEqual(a.val.entries[i][2], b.val.entries[j][2])
           [] Kind(a.type) = "Chan" -> a.val.id = b.val.id
           [] Kind(a.type) = "Ptr" ->
                \/ a.val.addr = b.val.addr
                \/ /\ a.val.addr # 0
                   /\ b.val.addr # 0
                   /\ DeepEqual(a.val.elem, b.val.elem)

\* ObjectsAreEqual with the nil test of isNil in place of the comparison with
\* the untyped nil: a typed nil pointer then equals nil.
ObjectsAreEqual_NilByKind(expected, actual) ==
    LET nilLike(v) ==
            \/ IsNilIface(v)
            \/ Kind(v.type) = "Ptr" /\ v.val.addr = 0
    IN  IF nilLike(expected) \/ nilLike(actual)
        THEN nilLike(expected) /\ nilLike(actual)
        ELSE DeepEqual(expected, actual)

ObjectsAreEqual(expected, actual) ==
    IF IsNilIface(expected) \/ IsNilIface(actual)
    THEN IfaceEq(expected, actual)
    ELSE DeepEqual(expected, actual)

\* ------------------------------------------------------------ conversions

\* Go's integer conversion to type T: the value modulo 2^Width(T), read as
\* signed or unsigned.  A 32- or 64-bit type holds every value of the model
\* unchanged, a negative one converted to an unsigned type excepted.
Wrap(n, T) ==
    IF Width(T) >= 32 /\ (T \in SignedTypes \/ n >= 0) THEN n
    ELSE LET m == n % (2 ^ Width(T))
         IN  IF T \in SignedTypes /\ m >= 2 ^ (Width(T) - 1)
             THEN m - 2 ^ Width(T)
             ELSE m

\* string(rune(n)): the one-character string of code point n.
RuneString(n) ==
    IF n = 97 THEN <<"a">>
    ELSE IF n = 98 THEN <<"b">>
    ELSE IF n < 0 \/ n > 1114111 THEN <<"\\uFFFD">>
    ELSE <<"U+" \o ToString(n)>>

\* reflect.Type.ConvertibleTo among the model's types.
ConvertibleTo(S, T) ==
    \/ S = T
    \/ S \in NumericTypes /\ T \in NumericTypes
    \/ S \in IntegerTypes /\ T = "string"

\* reflect.Value.Convert(T).Interface()
Convert(v, T) ==
    IF v.type = T THEN v
    ELSE IF v.type \in IntegerTypes /\ T \in IntegerTypes THEN IntV(T, Wrap(v.val, T))
    ELSE IF v.type \in IntegerTypes /\ T \in FloatTypes THEN FloatV(T, "num", v.val)
    ELSE IF v.type \in FloatTypes /\ T \in FloatTypes THEN FloatV(T, v.val.cls, v.val.n)
    ELSE IF v.type \in FloatTypes /\ T \in IntegerTypes THEN IntV(T, Wrap(v.val.n, T))
    ELSE StrV(RuneString(v.val))

\* The conversions whose result Go defines and the model's integers hold: not
\* a negative number to a 32- or 64-bit unsigned type, and not a NaN, an
\* infinity or a negative float to an integer type.
Representable(v, T) ==
    /\ v.type \in IntegerTypes /\ T \in UnsignedTypes /\ Width(T) >= 32 => v.val >= 0
    /\ v.type \in FloatTypes /\ T \in IntegerTypes => v.val.cls = "num"
    /\ v.type \in FloatTypes /\ T \in UnsignedTypes => v.val.n >= 0

ObjectsAreEqualValues(expected, actual) ==
    IF ObjectsAreEqual(expected, actual) THEN TRUE
    ELSE IF actual.type = "nil" THEN FALSE
    ELSE IF expected.type # "nil" /\ ConvertibleTo(expected.type, actual.type)
         THEN DeepEqual(Convert(expected, actual.type), actual)
    ELSE FALSE

\* ------------------------------------------------------------------- text

LowerLetters ==
    {"a", "b", "c", "d", "e", "f", "g", "h", "i", "j", "k", "l", "m",
     "n", "o", "p", "q", "r", "s", "t", "u", "v", "w", "x", "y", "z"}

\* unicode.IsLower on the model's characters
IsLower(c) == c \in LowerLetters

\* strings.HasPrefix
HasPrefix(s, prefix) ==
    /\ Len(s) >= Len(prefix)
    /\ SubSeq(s, 1, Len(prefix)) = prefix

\* strings.Contains
StringsContains(s, substr) ==
    \E i \in 0..(Len(s) - Len(substr)) : SubSeq(s, i + 1, i + Len(substr)) = substr

DigitChar(d) == <<"0", "1", "2", "3", "4", "5", "6", "7", "8", "9">>[d + 1]

RECURSIVE Digits(_)
Digits(n) ==
    IF n < 10 THEN <<DigitChar(n)>>
    ELSE Digits(n \div 10) \o <<DigitChar(n % 10)>>

\* The text fmt prints for an operand under %v.  Only strings and integers are
\* given as message arguments; any other operand is kept as one element.
PlainText(v) ==
    IF v.type = "string" THEN v.val
    ELSE IF v.type \in IntegerTypes
         THEN (IF v.val < 0 THEN <<"-">> \o Digits(0 - v.val) ELSE Digits(v.val))
    ELSE <<"<" \o v.type \o ">">>

\* One verb of fmt.Sprintf applied to one operand; a verb that does not fit
\* the operand prints as %!verb(type=value), kept as whole elements.
VerbText(verb, v) ==
    IF \/ verb = "v"
       \/ verb = "s" /\ v.type = "string"
       \/ verb = "d" /\ v.type \in IntegerTypes
    THEN PlainText(v)
    ELSE <<"%!" \o verb \o "(" \o v.type \o "=">> \o PlainText(v) \o <<")">>

RECURSIVE ExtraText(_, _)
ExtraText(args, k) ==
    IF k > Len(args) THEN <<>>
    ELSE (IF k > 1 THEN <<", ">> ELSE <<>>)
         \o <<args[k].type \o "=">> \o PlainText(args[k]) \o ExtraText(args, k + 1)

\* fmt.Sprintf(format, args...) for the verbs %s, %d, %v and %%: the text made
\* from format[i..] and args[k..].
RECURSIVE SprintfFrom(_, _, _, _)
SprintfFrom(format, i, args, k) ==
    IF i > Len(format)
    THEN (IF k > Len(args) THEN <<>>
          ELSE <<"%!(EXTRA ">> \o ExtraText(SubSeq(args, k, Len(args)), 1) \o <<")">>)
    ELSE IF format[i] # "%" THEN <<format[i]>> \o SprintfFrom(format, i + 1, args, k)
    ELSE IF i = Len(format) THEN <<"%!(NOVERB)">> \o SprintfFrom(format, i + 1, args, k)
    ELSE IF format[i + 1] = "%" THEN <<"%">> \o SprintfFrom(format, i + 2, args, k)
    ELSE IF k > Len(args)
         THEN <<"%!" \o format[i + 1] \o "(MISSING)">> \o SprintfFrom(format, i + 2, args, k)
    ELSE VerbText(format[i + 1], args[k]) \o SprintfFrom(format, i + 2, args, k + 1)

Sprintf(format, args) == SprintfFrom(format, 1, args, 1)

\* messageFromMsgAndArgs: [fault, text].  The type assertion .(string) on an
\* argument that holds no string panics.
messageFromMsgAndArgs(msgAndArgs) ==
    IF Len(msgAndArgs) = 0 THEN [fault |-> FALSE, text |-> <<>>]
    ELSE IF msgAndArgs[1].type # "string" THEN [fault |-> TRUE, text |-> <<>>]
    ELSE IF Len(msgAndArgs) = 1 THEN [fault |-> FALSE, text |-> msgAndArgs[1].val]
    ELSE [fault |-> FALSE,
          text |-> Sprintf(msgAndArgs[1].val, SubSeq(msgAndArgs, 2, Len(msgAndArgs)))]

\* ------------------------------------------------------------- the tracer

\* A stack frame as runtime.Caller and runtime.FuncForPC report it: the
\* file's path split at "/", the line, whether the frame has a function and
\* that function's name split at ".".
Frame(parts, hasFunc, segments) ==
    [parts |-> parts, line |-> 0, hasFunc |-> hasFunc, segments |-> segments]

LibraryDirs == {"assert", "mock", "require"}

\* The frame of one of the library's own functions, its name kept as one
\* element (none starts with Test, Benchmark or Example).
LibFrame(name) ==
    Frame(<<"assert", "assertions.go">>, TRUE,
          <<<<"a", "s", "s", "e", "r", "t">>, <<name>>>>)

\* The calling goroutine's stack, innermost frame first, each frame's line its
\* height above the outermost frame: a line identifies its frame.
Numbered(stack) ==
    [i \in 1..Len(stack) |-> [stack[i] EXCEPT !.line = Len(stack) - i + 1]]

isTest(name, prefix) ==
    IF ~HasPrefix(name, prefix) THEN FALSE
    ELSE IF Len(name) = Len(prefix) THEN TRUE
    ELSE ~IsLower(name[Len(prefix) + 1])

TestPrefix == <<"T", "e", "s", "t">>
BenchmarkPrefix == <<"B", "e", "n", "c", "h", "m", "a", "r", "k">>
ExamplePrefix == <<"E", "x", "a", "m", "p", "l", "e">>

\* Whether CallerInfo stops walking at a function of this name.
IsTestEntry(name) ==
    \/ isTest(name, TestPrefix)
    \/ isTest(name, BenchmarkPrefix)
    \/ isTest(name, ExamplePrefix)

\* IsReported with only the directory assert taken for the library's.
IsReported_AssertOnly(dir, file) == dir # "assert"

\* Whether CallerInfo adds the frame of this directory and file to the trace.
IsReported(dir, file) == dir \notin LibraryDirs \/ file = "mock_test.go"

\* CallerInfo's loop from runtime.Caller(i - 1) on, with the callers collected
\* so far: [fault, callers].  A trace entry "file:line" is [file, line].
RECURSIVE CallerInfoFrom(_, _, _)
CallerInfoFrom(stack, i, callers) ==
    IF i > Len(stack) THEN [fault |-> FALSE, callers |-> <<>>]
    ELSE LET f == stack[i]
             n == Len(f.parts)
         IN  IF f.parts = <<"<autogenerated>">> THEN [fault |-> FALSE, callers |-> callers]
             ELSE IF n < 2 THEN [fault |-> TRUE, callers |-> <<>>]
             ELSE LET added ==
                          IF IsReported(f.parts[n - 1], f.parts[n])
                          THEN Append(callers, [file |-> f.parts[n], line |-> f.line])
                          ELSE callers
                  IN  IF ~f.hasFunc THEN [fault |-> FALSE, callers |-> added]
                      ELSE IF IsTestEntry(f.segments[Len(f.segments)])
                           THEN [fault |-> FALSE, callers |-> added]
                      ELSE CallerInfoFrom(stack, i + 1, added)

\* CallerInfo() on the stack of its caller: its own frame is the innermost.
CallerInfo(stack) ==
    CallerInfoFrom(Numbered(<<LibFrame("CallerInfo")>> \o stack), 1, <<>>)

\* ----------------------------------------------------------- the reporter

\* What a call did: res is "true" or "false" (an assertion's result), "value"
\* (a helper's result, in value) or "fault" (a panic that leaves the call);
\* errs counts the calls of t.Errorf and reports holds their arguments.
Pass == [res |-> "true", errs |-> 0, reports |-> <<>>]
Fault == [res |-> "fault", errs |-> 0, reports |-> <<>>]
Value(v) == [res |-> "value", errs |-> 0, reports |-> <<>>, value |-> v]

\* The frames of the library functions named, innermost first.
LibFrames(names) == [i \in 1..Len(names) |-> LibFrame(names[i])]

\* Fail's loop for the location: the first frame whose directory is not the
\* library's, as <<[parts, line]>>; <<>> when the stack ends before one.
RECURSIVE LocationFrom(_, _)
LocationFrom(stack, i) ==
    IF i > Len(stack) THEN [fault |-> FALSE, location |-> <<>>]
    ELSE LET f == stack[i]
             n == Len(f.parts)
         IN  IF n < 2 THEN [fault |-> TRUE, location |-> <<>>]
             ELSE IF f.parts[n - 1] \notin LibraryDirs
                  THEN [fault |-> FALSE,
                        location |-> <<[parts |-> f.parts, line |-> f.line]>>]
             ELSE LocationFrom(stack, i + 1)

\* Fail(t, failureMessage, msgAndArgs...) called through the library
\* functions of chain (innermost first) from the stack env.stack.  The report
\* is the arguments of the one call of t.Errorf; failureMessage names the
\* headline, which indentMessageLines only indents.
Fail(chain, env, failureMessage, msgAndArgs) ==
    LET frames == LibFrames(<<"Fail">> \o chain) \o env.stack
        loc == IF env.printLocation
               THEN LocationFrom(Numbered(frames), 1)
               ELSE [fault |-> FALSE, location |-> <<>>]
        message == messageFromMsgAndArgs(msgAndArgs)
        trace == CallerInfo(frames)
    IN  IF loc.fault \/ message.fault \/ trace.fault THEN Fault
        ELSE [res |-> "false",
              errs |-> 1,
              reports |-> <<[format |-> IF Len(message.text) > 0
                                        THEN "messages" ELSE "plain",
                             location |-> loc.location,
                             errorTrace |-> trace.callers,
                             error |-> failureMessage,
                             message |-> message.text]>>]

\* ----------------------------------------------------------------- the diff

\* reflect.Type.Elem() of a pointer type
Elem(T) ==
    CASE T = "*int" -> "int"
      [] T = "*Point" -> "Point"
      [] T = "*time.Time" -> "time.Time"
      [] T = "*errors.errorString" -> "errors.errorString"

\* typeAndKind: the type and kind of a value, those of the pointed-to type
\* for a pointer.
typeAndKind(v) ==
    IF Kind(v.type) = "Ptr"
    THEN [t |-> Elem(v.type), k |-> Kind(Elem(v.type))]
    ELSE [t |-> v.type, k |-> Kind(v.type)]

\* The text spew prints for a value that holds no other value.
LeafText(v) ==
    CASE Kind(v.type) = "Invalid" -> <<"<nil>">>
      [] Kind(v.type) \in {"Int", "Uint"} -> PlainText(v)
      [] Kind(v.type) = "Float" ->
            (CASE v.val.cls = "num" -> PlainText(IntV("int", v.val.n))
               [] v.val.cls = "nan" -> <<"NaN">>
               [] v.val.cls = "inf" -> <<"+Inf">>
               [] v.val.cls = "ninf" -> <<"-Inf">>)
      [] Kind(v.type) = "String" -> <<"\"">> \o v.val \o <<"\"">>
      [] Kind(v.type) = "Bool" -> <<IF v.val THEN "true" ELSE "false">>
      [] Kind(v.type) = "Chan" ->
            IF v.val.id = 0 THEN <<"<nil>">> ELSE <<"0x">> \o Digits(v.val.id)

\* The order of two strings that sorting map keys uses, on lower-case letters.
CharRank(c) == CHOOSE n \in 0..26 : (n = 0 /\ c \notin LowerLetters) \/
    (n > 0 /\ c = <<"a", "b", "c", "d", "e", "f", "g", "h", "i", "j", "k", "l", "m",
                   "n", "o", "p", "q", "r", "s", "t", "u", "v", "w", "x", "y", "z">>[n])
RECURSIVE StringLess(_, _)
StringLess(s, u) ==
    IF Len(u) = 0 THEN FALSE
    ELSE IF Len(s) = 0 THEN TRUE
    ELSE IF CharRank(s[1]) # CharRank(u[1]) THEN CharRank(s[1]) < CharRank(u[1])
    ELSE StringLess(Tail(s), Tail(u))

\* The entries of a map with string keys, sorted by key.
RECURSIVE SortEntries(_)
SortEntries(entries) ==
    IF Len(entries) = 0 THEN <<>>
    ELSE LET least == CHOOSE i \in 1..Len(entries) :
                          \A j \in 1..Len(entries) :
                              ~StringLess(entries[j][1].val, entries[i][1].val)
         IN  <<entries[least]>>
                 \o SortEntries([k \in 1..(Len(entries) - 1) |->
                                    IF k < least THEN entries[k] ELSE entries[k + 1]])

\* The lines of spew.Sdump(v) under spew.Config.SortKeys = sorted: one line
\* for a value's type and own text, then the lines of the values it holds,
\* one level deeper, and a closing line.  A line is its depth's mark and the
\* pieces of its text.  The keys of a map come in the map's own order of
\* iteration unless sorted.
RECURSIVE SdumpLines(_, _, _)
SdumpLines(v, depth, sorted) ==
    LET head == <<Digits(depth)[1], "(" \o v.type \o ")">>
        held(vs, n) ==
            IF n = 0 THEN <<>>
            ELSE LET R[i \in 1..n] ==
                         (IF i = 1 THEN <<>> ELSE R[i - 1])
                             \o SdumpLines(vs[i], depth + 1, sorted)
                 IN  R[n]
        block(vs, n) ==
            <<head \o <<"len=">> \o Digits(n) \o <<"{">>>>
                \o held(vs, Len(vs)) \o <<<<Digits(depth)[1], "}">>>>
        flat(entries) ==
            [i \in 1..(2 * Len(entries)) |-> entries[(i + 1) \div 2][2 - (i % 2)]]
    IN  CASE Kind(v.type) \in {"Invalid", "Int", "Uint", "Float", "String", "Bool", "Chan"} ->
                <<head \o LeafText(v)>>
          [] Kind(v.type) = "Slice" ->
                IF v.val.isNil THEN <<head \o <<"<nil>">>>> ELSE block(v.val.elems, Len(v.val.elems))
          [] Kind(v.type) = "Array" -> block(v.val, Len(v.val))
          [] Kind(v.type) = "Struct" ->
                <<head \o <<"{">>>> \o held(v.val, Len(v.val)) \o <<<<Digits(depth)[1], "}">>>>
          [] Kind(v.type) = "Map" ->
                IF v.val.isNil THEN <<head \o <<"<nil>">>>>
                ELSE block(flat(IF sorted THEN SortEntries(v.val.entries)
                                ELSE v.val.entries),
                           Len(v.val.entries))
          [] Kind(v.type) = "Ptr" ->
                IF v.val.addr = 0 THEN <<head \o <<"<nil>">>>>
                ELSE <<head \o <<"0x">> \o Digits(v.val.addr)>>
                         \o SdumpLines(v.val.elem, depth + 1, sorted)

Sdump(v, sorted) == SdumpLines(v, 0, sorted)

\* The lines every one of which is marked with the sign.
Marked(sign, lines) == [i \in 1..Len(lines) |-> <<sign>> \o lines[i]]

\* The length of the longest common prefix of two sequences of lines, up to limit.
RECURSIVE CommonPrefix(_, _, _)
CommonPrefix(A, B, limit) ==
    IF limit = 0 \/ Head(A) # Head(B) THEN 0
    ELSE 1 + CommonPrefix(Tail(A), Tail(B), limit - 1)

Reverse(s) == [i \in 1..Len(s) |-> s[Len(s) - i + 1]]
MinOf(m, n) == IF m < n THEN m ELSE n

\* difflib.GetUnifiedDiffString of A against B with the file names Expected
\* and Actual and one line of context: no text for equal inputs; else the two
\* header lines and one hunk, from the line before the first difference to
\* the line after the last (the ranges of the hunk's @@ line are left out).
GetUnifiedDiffString(A, B) ==
    IF A = B THEN <<>>
    ELSE LET p == CommonPrefix(A, B, MinOf(Len(A), Len(B)))
             q == CommonPrefix(Reverse(A), Reverse(B), MinOf(Len(A), Len(B)) - p)
         IN  <<<<"--- ", "Expected">>, <<"+++ ", "Actual">>, <<"@@">>>>
                 \o Marked(" ", SubSeq(A, IF p = 0 THEN 1 ELSE p, p))
                 \o Marked("-", SubSeq(A, p + 1, Len(A) - q))
                 \o Marked("+", SubSeq(B, p + 1, Len(B) - q))
                 \o Marked(" ", SubSeq(A, Len(A) - q + 1, Len(A) - q + MinOf(q, 1)))

\* Whether diff goes as far as its dumps: both values hold something, their
\* types (a pointer's being the type it points to) are one and its kind is
\* struct, map, slice or array.
DiffDumps(expected, actual) ==
    /\ ~IsNilIface(expected)
    /\ ~IsNilIface(actual)
    /\ typeAndKind(expected).t = typeAndKind(actual).t
    /\ typeAndKind(expected).k \in {"Struct", "Map", "Slice", "Array"}

\* diff: the lines of the text it returns, <<>> for the empty string.  It sets
\* spew.Config.SortKeys before it dumps, so its dumps are sorted ones.
diff(expected, actual) ==
    IF ~DiffDumps(expected, actual) THEN <<>>
    ELSE <<<<>>, <<>>, <<"Diff:">>>>
             \o GetUnifiedDiffString(Sdump(expected, TRUE), Sdump(actual, TRUE))

\* ---------------------------------------------------------- the assertions

\* Equal: the outcome of a failing call holds the text of diff, which the
\* headline ends with, and whether diff went as far as its dumps.
Equal(outer, env, expected, actual, msgAndArgs) ==
    IF ~ObjectsAreEqual(expected, actual)
    THEN Fail(<<"Equal">> \o outer, env, "Not equal", msgAndArgs)
             @@ [diff |-> diff(expected, actual), dumped |-> DiffDumps(expected, actual)]
    ELSE Pass

EqualValues(env, expected, actual, msgAndArgs) ==
    IF ~ObjectsAreEqualValues(expected, actual)
    THEN Fail(<<"EqualValues">>, env, "Not equal", msgAndArgs)
    ELSE Pass

Exactly(env, expected, actual, msgAndArgs) ==
    IF expected.type # actual.type
    THEN Fail(<<"Exactly">>, env, "Types expected to match exactly", msgAndArgs)
    ELSE Equal(<<"Exactly">>, env, expected, actual, msgAndArgs)

\* reflect.Value.IsNil for the kinds Chan, Map, Ptr and Slice
ValueIsNil(v) ==
    CASE Kind(v.type) \in {"Slice", "Map"} -> v.val.isNil
      [] Kind(v.type) = "Chan" -> v.val.id = 0
      [] Kind(v.type) = "Ptr" -> v.val.addr = 0

isNil(object) ==
    IF IsNilIface(object) THEN TRUE
    ELSE Kind(object.type) \in {"Chan", "Map", "Ptr", "Slice"} /\ ValueIsNil(object)

NotNil(outer, env, object, msgAndArgs) ==
    IF ~isNil(object) THEN Pass
    ELSE Fail(<<"NotNil">> \o outer, env, "Expected value not to be nil.", msgAndArgs)

NilAssert(env, object, msgAndArgs) ==
    IF isNil(object) THEN Pass
    ELSE Fail(<<"Nil">>, env, "Expected nil, but got", msgAndArgs)

NotEqual(env, expected, actual, msgAndArgs) ==
    IF ObjectsAreEqual(expected, actual)
    THEN Fail(<<"NotEqual">>, env, "Should not be", msgAndArgs)
    ELSE Pass

numericZeros ==
    <<IntV("int", 0), IntV("int8", 0), IntV("int16", 0), IntV("int32", 0),
      IntV("int64", 0), IntV("uint", 0), IntV("uint8", 0), IntV("uint16", 0),
      IntV("uint32", 0), IntV("uint64", 0),
      FloatV("float32", "num", 0), FloatV("float64", "num", 0)>>

\* reflect.Value.Len for the kinds that have a length
ValueLen(v) ==
    CASE Kind(v.type) = "Slice" -> Len(v.val.elems)
      [] Kind(v.type) = "Map" -> Len(v.val.entries)
      [] Kind(v.type) = "Chan" -> v.val.len
      [] Kind(v.type) \in {"Array", "String"} -> Len(v.val)

\* time.Time.IsZero
TimeIsZero(t) == t.val[1].val = 0 /\ t.val[2].val = 0

\* isEmpty without the list of numeric zeros: only the int zero is empty.
isEmpty_IntZeroOnly(object) ==
    \/ IsNilIface(object)
    \/ IfaceEq(object, StrV(<<>>))
    \/ IfaceEq(object, BoolV(FALSE))
    \/ IfaceEq(object, IntV("int", 0))
    \/ Kind(object.type) \in {"Map", "Slice", "Chan"} /\ ValueLen(object) = 0
    \/ Kind(object.type) = "Ptr" /\ ValueIsNil(object)
    \/ object.type = "*time.Time" /\ ~ValueIsNil(object) /\ TimeIsZero(object.val.elem)

isEmpty(object) ==
    IF IsNilIface(object) THEN TRUE
    ELSE IF IfaceEq(object, StrV(<<>>)) THEN TRUE
    ELSE IF IfaceEq(object, BoolV(FALSE)) THEN TRUE
    ELSE IF \E i \in 1..Len(numericZeros) : IfaceEq(object, numericZeros[i]) THEN TRUE
    ELSE CASE Kind(object.type) \in {"Map", "Slice", "Chan"} -> ValueLen(object) = 0
           [] Kind(object.type) = "Ptr" ->
                IF ValueIsNil(object) THEN TRUE
                ELSE IF object.type = "*time.Time" THEN TimeIsZero(object.val.elem)
                ELSE FALSE
           [] OTHER -> FALSE

Empty(env, object, msgAndArgs) ==
    IF ~isEmpty(object)
    THEN Fail(<<"Empty">>, env, "Should be empty", msgAndArgs)
    ELSE Pass

NotEmpty(env, object, msgAndArgs) ==
    IF isEmpty(object)
    THEN Fail(<<"NotEmpty">>, env, "Should NOT be empty", msgAndArgs)
    ELSE Pass

\* getLen: [ok, length]; reflect's panic for a kind without a length is
\* recovered.
getLen(x) ==
    IF Kind(x.type) \in {"Slice", "Map", "Chan", "Array", "String"}
    THEN [ok |-> TRUE, length |-> ValueLen(x)]
    ELSE [ok |-> FALSE, length |-> 0]

LenAssert(env, object, length, msgAndArgs) ==
    LET r == getLen(object)
    IN  IF ~r.ok
        THEN Fail(<<"Len">>, env, "could not be applied builtin len()", msgAndArgs)
        ELSE IF r.length # length
             THEN Fail(<<"Len">>, env, "should have item(s)", msgAndArgs)
        ELSE Pass

Condition(env, comp, msgAndArgs) ==
    IF ~comp
    THEN Fail(<<"Condition">>, env, "Condition failed!", msgAndArgs)
    ELSE Pass

\* ------------------------------------------------------------ containment

\* reflect.Value.String(): the string itself, or "<T Value>" for a value of
\* another type T, spelled out for int and kept as one element otherwise.
ValueString(v) ==
    IF v.type = "string" THEN v.val
    ELSE IF v.type = "int" THEN IntValueText
    ELSE IF v.type = "nil" THEN <<"<invalid Value>">>
    ELSE <<"<" \o v.type \o " Value>">>

\* includeElement: [ok, found].  Every panic of reflect (the kind of a nil
\* type, the length of a kind that has none, the index of a channel) is
\* recovered into ok = FALSE.
includeElement(list, element) ==
    IF IsNilIface(list) THEN [ok |-> FALSE, found |-> FALSE]
    ELSE IF Kind(list.type) = "String"
    THEN [ok |-> TRUE, found |-> StringsContains(list.val, ValueString(element))]
    ELSE IF Kind(list.type) = "Map"
    THEN [ok |-> TRUE,
          found |-> \E i \in 1..Len(list.val.entries) :
                        ObjectsAreEqual(list.val.entries[i][1], element)]
    ELSE IF Kind(list.type) = "Slice"
    THEN [ok |-> TRUE,
          found |-> \E i \in 1..Len(list.val.elems) :
                        ObjectsAreEqual(list.val.elems[i], element)]
    ELSE IF Kind(list.type) = "Array"
    THEN [ok |-> TRUE,
          found |-> \E i \in 1..Len(list.val) : ObjectsAreEqual(list.val[i], element)]
    ELSE IF Kind(list.type) = "Chan" /\ ValueLen(list) = 0
    THEN [ok |-> TRUE, found |-> FALSE]
    ELSE [ok |-> FALSE, found |-> FALSE]

Contains(env, s, contains, msgAndArgs) ==
    LET r == includeElement(s, contains)
    IN  IF ~r.ok
        THEN Fail(<<"Contains">>, env, "could not be applied builtin len()", msgAndArgs)
        ELSE IF ~r.found
             THEN Fail(<<"Contains">>, env, "does not contain", msgAndArgs)
        ELSE Pass

NotContains(env, s, contains, msgAndArgs) ==
    LET r == includeElement(s, contains)
    IN  IF ~r.ok
        THEN Fail(<<"NotContains">>, env, "could not be applied builtin len()", msgAndArgs)
        ELSE IF r.found
             THEN Fail(<<"NotContains">>, env, "should not contain", msgAndArgs)
        ELSE Pass

\* ------------------------------------------------------------------ numbers

\* float64 arithmetic on payloads [cls, n]: numbers, NaN and the infinities.
F(c, n) == [cls |-> c, n |-> n]
FNeg(x) ==
    CASE x.cls = "num" -> F("num", 0 - x.n)
      [] x.cls = "inf" -> F("ninf", 0)
      [] x.cls = "ninf" -> F("inf", 0)
      [] x.cls = "nan" -> x
FSub(x, y) ==
    IF x.cls = "nan" \/ y.cls = "nan" THEN F("nan", 0)
    ELSE IF x.cls = "num" /\ y.cls = "num" THEN F("num", x.n - y.n)
    ELSE IF x.cls = y.cls THEN F("nan", 0)
    ELSE IF x.cls = "num" THEN FNeg(y)
    ELSE x
FLt(x, y) ==
    IF x.cls = "nan" \/ y.cls = "nan" THEN FALSE
    ELSE IF x.cls = "num" /\ y.cls = "num" THEN x.n < y.n
    ELSE IF x.cls = y.cls THEN FALSE
    ELSE x.cls = "ninf" \/ y.cls = "inf"
FMul(x, y) ==
    IF x.cls = "nan" \/ y.cls = "nan" THEN F("nan", 0)
    ELSE IF x.cls = "num" /\ y.cls = "num" THEN F("num", x.n * y.n)
    ELSE IF (x.cls = "num" /\ x.n = 0) \/ (y.cls = "num" /\ y.n = 0) THEN F("nan", 0)
    ELSE IF FLt(x, F("num", 0)) = FLt(y, F("num", 0)) THEN F("inf", 0)
    ELSE F("ninf", 0)

\* toFloat: [f, ok].  The type switch has a case for every integer and float
\* type but uint.
toFloat(x) ==
    IF x.type \in {"uint8", "uint16", "uint32", "uint64",
                   "int", "int8", "int16", "int32", "int64"}
    THEN [f |-> F("num", x.val), ok |-> TRUE]
    ELSE IF x.type \in {"float32", "float64"} THEN [f |-> x.val, ok |-> TRUE]
    ELSE [f |-> F("num", 0), ok |-> FALSE]

InDelta(outer, env, expected, actual, delta, msgAndArgs) ==
    LET a == toFloat(expected)
        b == toFloat(actual)
        dt == FSub(a.f, b.f)
        chain == <<"InDelta">> \o outer
    IN  IF ~a.ok \/ ~b.ok
        THEN Fail(chain, env, "Parameters must be numerical", msgAndArgs)
        ELSE IF a.f.cls = "nan"
             THEN Fail(chain, env, "Actual must not be NaN", msgAndArgs)
        ELSE IF b.f.cls = "nan"
             THEN Fail(chain, env, "Expected with delta, but was NaN", msgAndArgs)
        ELSE IF FLt(dt, FNeg(delta)) \/ FLt(delta, dt)
             THEN Fail(chain, env, "Max difference", msgAndArgs)
        ELSE Pass

calcEpsilonDelta(expected, actual, epsilon) ==
    LET a == toFloat(expected)
        b == toFloat(actual)
        af == IF FLt(a.f, F("num", 0)) THEN FNeg(a.f) ELSE a.f
        bf == IF FLt(b.f, F("num", 0)) THEN FNeg(b.f) ELSE b.f
    IN  IF ~a.ok \/ ~b.ok THEN F("num", 0)
        ELSE IF FLt(af, bf) THEN FMul(af, epsilon)
        ELSE FMul(bf, epsilon)

InEpsilon(outer, env, expected, actual, epsilon, msgAndArgs) ==
    InDelta(<<"InEpsilon">> \o outer, env, expected, actual,
            calcEpsilonDelta(expected, actual, epsilon), msgAndArgs)

\* The loop of InDeltaSlice from index i (from 1): each element of actual, up
\* to actual's length, against expected's at the same index, which panics
\* when expected has none.
RECURSIVE InDeltaSliceFrom(_, _, _, _, _)
InDeltaSliceFrom(env, expected, actual, delta, i) ==
    IF i > Len(actual.val.elems) THEN Pass
    ELSE IF i > Len(expected.val.elems) THEN Fault
    ELSE LET result == InDelta(<<"InDeltaSlice">>, env, actual.val.elems[i],
                               expected.val.elems[i], delta, <<>>)
         IN  IF result.res # "true" THEN result
             ELSE InDeltaSliceFrom(env, expected, actual, delta, i + 1)

InDeltaSlice(env, expected, actual, delta, msgAndArgs) ==
    IF \/ IsNilIface(expected)
       \/ IsNilIface(actual)
       \/ Kind(actual.type) # "Slice"
       \/ Kind(expected.type) # "Slice"
    THEN Fail(<<"InDeltaSlice">>, env, "Parameters must be slice", msgAndArgs)
    ELSE InDeltaSliceFrom(env, expected, actual, delta, 1)

RECURSIVE InEpsilonSliceFrom(_, _, _, _, _)
InEpsilonSliceFrom(env, expected, actual, delta, i) ==
    IF i > Len(actual.val.elems) THEN Pass
    ELSE IF i > Len(expected.val.elems) THEN Fault
    ELSE LET result == InEpsilon(<<"InEpsilonSlice">>, env, actual.val.elems[i],
                                 expected.val.elems[i], delta, <<>>)
         IN  IF result.res # "true" THEN result
             ELSE InEpsilonSliceFrom(env, expected, actual, delta, i + 1)

InEpsilonSlice(env, expected, actual, delta, msgAndArgs) ==
    IF \/ IsNilIface(expected)
       \/ IsNilIface(actual)
       \/ Kind(actual.type) # "Slice"
       \/ Kind(expected.type) # "Slice"
    THEN Fail(<<"InEpsilonSlice">>, env, "Parameters must be slice", msgAndArgs)
    ELSE InEpsilonSliceFrom(env, expected, actual, delta, 1)

\* -------------------------------------------------------------- zero values

\* Zero decided by isEmpty: a collection of length zero counts as zero.
Zero_ByIsEmpty(env, i, msgAndArgs) ==
    IF ~isEmpty(i) /\ ~(~IsNilIface(i) /\ DeepEqual(i, ZeroOf(i.type)))
    THEN Fail(<<"Zero">>, env, "Should be zero", msgAndArgs)
    ELSE Pass

Zero(env, i, msgAndArgs) ==
    IF ~IsNilIface(i) /\ ~DeepEqual(i, ZeroOf(i.type))
    THEN Fail(<<"Zero">>, env, "Should be zero", msgAndArgs)
    ELSE Pass

NotZero(env, i, msgAndArgs) ==
    IF IsNilIface(i) \/ DeepEqual(i, ZeroOf(i.type))
    THEN Fail(<<"NotZero">>, env, "Should not be zero", msgAndArgs)
    ELSE Pass

\* ------------------------------------------------------------------- errors

\* An error is the nil interface or a *errors.errorString; Error() gives the
\* text it points to.
ErrorText(err) == err.val.elem.val

ErrorExpectedFormat == <<"An error is expected but got nil. ", "%", "s">>
ErrorValueFormat ==
    <<"An error with value \"", "%", "s", "\" is expected but got \"", "%", "s",
      "\". ", "%", "s">>

Error(env, err, msgAndArgs) ==
    LET message == messageFromMsgAndArgs(msgAndArgs)
    IN  IF message.fault THEN Fault
        ELSE NotNil(<<"Error">>, env, err,
                    <<StrV(ErrorExpectedFormat), StrV(message.text)>>)

EqualError(env, theError, errString, msgAndArgs) ==
    LET message == messageFromMsgAndArgs(msgAndArgs)
        notNil == NotNil(<<"EqualError">>, env, theError,
                         <<StrV(ErrorExpectedFormat), StrV(message.text)>>)
    IN  IF message.fault THEN Fault
        ELSE IF notNil.res # "true" THEN notNil
        ELSE Equal(<<"EqualError">>, env, StrV(errString), StrV(ErrorText(theError)),
                   <<StrV(ErrorValueFormat), StrV(errString),
                     StrV(ErrorText(theError)), StrV(message.text)>>)

\* --------------------------------------------------------------------- JSON

\* json.Unmarshal into an interface{} on the texts given to JSONEq: [ok, doc].
Unmarshal(text) ==
    IF text \in {<<"1">>, <<" ", "1">>} THEN [ok |-> TRUE, doc |-> Num(1)]
    ELSE IF text = <<"2">> THEN [ok |-> TRUE, doc |-> Num(2)]
    ELSE IF text = <<"n", "u", "l", "l">> THEN [ok |-> TRUE, doc |-> Nil]
    ELSE [ok |-> FALSE, doc |-> Nil]

JSONEq(env, expected, actual, msgAndArgs) ==
    LET e == Unmarshal(expected)
        a == Unmarshal(actual)
    IN  IF ~e.ok
        THEN Fail(<<"JSONEq">>, env, "Expected value is not valid json", msgAndArgs)
        ELSE IF ~a.ok
             THEN Fail(<<"JSONEq">>, env, "Input needs to be valid json", msgAndArgs)
        ELSE Equal(<<"JSONEq">>, env, e.doc, a.doc, msgAndArgs)

\* --------------------------------------------------------------- the inputs

IntSamples ==
    {IntV(T, n) : T \in IntegerTypes, n \in {0, 1}}
        \cup {IntV("int8", -1), IntV("int8", 127), IntV("uint8", 255),
              IntV("int16", -1), IntV("int16", 256), IntV("uint16", 256),
              IntV("int", -1), IntV("int", 97), IntV("int", 256), IntV("int64", 256)}

FloatSamples ==
    {Num(0), Num(1), Num(2), Num(-1), NaN, PosInf,
     FloatV("float32", "num", 0), FloatV("float32", "num", 1)}

ScalarSamples ==
    {Nil, BoolV(TRUE), BoolV(FALSE),
     StrV(<<>>), StrV(<<"a">>), StrV(<<"a", "b">>), StrV(IntValueText)}

CompositeSamples ==
    {SliceV("[]float64", TRUE, <<>>), SliceV("[]float64", FALSE, <<>>),
     SliceV("[]float64", FALSE, <<Num(1)>>),
     SliceV("[]float64", FALSE, <<Num(1), Num(2)>>),
     SliceV("[]interface {}", FALSE, <<StrV(<<"a">>), IntV("int", 1)>>),
     ArrayV("[2]int", <<IntV("int", 0), IntV("int", 0)>>),
     ArrayV("[2]int", <<IntV("int", 0), IntV("int", 1)>>),
     MapV("map[string]string", TRUE, <<>>), MapV("map[string]string", FALSE, <<>>),
     MapV("map[string]string", FALSE, <<<<StrV(<<"a">>), StrV(<<"b">>)>>>>),
     ChanV("chan int", 0, 0), ChanV("chan int", 1, 0), ChanV("chan int", 2, 1),
     PtrV("*int", 0, IntV("int", 0)), PtrV("*int", 1, IntV("int", 0)),
     PtrV("*int", 2, IntV("int", 0)),
     PtrV("*time.Time", 0, TimeV(0, 0)), PtrV("*time.Time", 3, TimeV(0, 0)),
     PtrV("*time.Time", 4, TimeV(1, 0)),
     PointV(0, 0), PointV(1, 0), TimeV(0, 0)}

Values == IntSamples \cup FloatSamples \cup ScalarSamples \cup CompositeSamples

SmallValues ==
    {Nil, IntV("int", 1), IntV("uint", 1), Num(1), StrV(<<"a">>),
     SliceV("[]float64", FALSE, <<Num(1)>>),
     SliceV("[]float64", FALSE, <<Num(1), Num(2)>>),
     PtrV("*int", 0, IntV("int", 0))}

\* The operands of the slice assertions: slices of every length up to 2, with
\* a NaN and a string among the elements, and operands that are no slices.
SliceSamples ==
    {Nil, Num(1), SliceV("[]float64", TRUE, <<>>), SliceV("[]float64", FALSE, <<>>),
     SliceV("[]float64", FALSE, <<Num(1)>>), SliceV("[]float64", FALSE, <<Num(2)>>),
     SliceV("[]float64", FALSE, <<Num(1), Num(2)>>),
     SliceV("[]float64", FALSE, <<Num(1), Num(1)>>),
     SliceV("[]float64", FALSE, <<Num(2), Num(1)>>),
     SliceV("[]float64", FALSE, <<Num(1), NaN>>),
     SliceV("[]interface {}", FALSE, <<StrV(<<"a">>), IntV("int", 1)>>),
     SliceV("[]interface {}", FALSE, <<IntV("int", 1), IntV("uint8", 2)>>)}

Deltas == {F("num", 0), F("num", 1), F("num", -1), F("nan", 0)}

\* msgAndArgs: none, a message, an empty message, a format with its operand,
\* and lists whose first argument is no string.
MsgLists ==
    {<<>>, <<StrV(<<"m">>)>>, <<StrV(<<>>)>>,
     <<StrV(<<"%", "s">>), StrV(<<"x">>)>>,
     <<IntV("int", 42)>>, <<IntV("int", 42), StrV(<<"x">>)>>}

\* msgAndArgs for the functions that hand them on: those of MsgLists, a lone
\* message that holds a verb, a format with an integer operand, and a message
\* with an operand it has no verb for.
MsgSamples ==
    MsgLists \cup {<<StrV(<<"%", "s">>)>>,
                   <<StrV(<<"n", "=", "%", "d">>), IntV("int", 7)>>,
                   <<StrV(<<"m">>), StrV(<<"x">>)>>}

ErrorSamples ==
    {Nil, PtrV("*errors.errorString", 0, StrV(<<>>)),
     PtrV("*errors.errorString", 5, StrV(<<"a">>))}

JsonTexts == {<<"1">>, <<" ", "1">>, <<"2">>, <<"n", "u", "l", "l">>, <<"{">>}

\* The operands of diff: values of every kind, pointers to structs beside the
\* structs, and maps of the same entries in two orders.
DiffSamples ==
    {Nil, IntV("int", 1), IntV("int", 2), StrV(<<"a">>), StrV(<<"b">>), Num(1), NaN,
     PtrV("*int", 1, IntV("int", 0)), PtrV("*int", 2, IntV("int", 1)),
     PtrV("*Point", 0, PointV(0, 0)), PtrV("*Point", 6, PointV(1, 0)),
     PtrV("*Point", 7, PointV(1, 0)), PtrV("*Point", 8, PointV(0, 1)),
     PointV(0, 0), PointV(1, 0), TimeV(0, 0), TimeV(1, 0),
     SliceV("[]float64", TRUE, <<>>), SliceV("[]float64", FALSE, <<>>),
     SliceV("[]float64", FALSE, <<Num(1)>>), SliceV("[]float64", FALSE, <<NaN>>),
     SliceV("[]float64", FALSE, <<Num(1), Num(2)>>),
     SliceV("[]float64", FALSE, <<Num(1), Num(2), Num(1)>>),
     SliceV("[]interface {}", FALSE, <<StrV(<<"a">>), IntV("int", 1)>>),
     ArrayV("[2]int", <<IntV("int", 0), IntV("int", 0)>>),
     ArrayV("[2]int", <<IntV("int", 0), IntV("int", 1)>>),
     MapV("map[string]string", TRUE, <<>>), MapV("map[string]string", FALSE, <<>>),
     MapV("map[string]string", FALSE, <<<<StrV(<<"a">>), StrV(<<"b">>)>>>>),
     MapV("map[string]string", FALSE,
          <<<<StrV(<<"b">>), StrV(<<"c">>)>>, <<StrV(<<"a">>), StrV(<<"b">>)>>>>),
     MapV("map[string]string", FALSE,
          <<<<StrV(<<"a">>), StrV(<<"b">>)>>, <<StrV(<<"b">>), StrV(<<"c">>)>>>>),
     ChanV("chan int", 1, 0), ChanV("chan int", 2, 0)}

\* The frames a test's stack is made of.
S_pkg == <<"p", "k", "g">>
TestFrame == Frame(<<"pkg", "x_test.go">>, TRUE, <<S_pkg, <<"T", "e", "s", "t", "F", "o", "o">>>>)
BareTestFrame == Frame(<<"pkg", "y_test.go">>, TRUE, <<S_pkg, TestPrefix>>)
TestifyFrame ==
    Frame(<<"pkg", "z_test.go">>, TRUE, <<S_pkg, <<"T", "e", "s", "t", "i", "f", "y">>>>)
BenchmarkFrame == Frame(<<"pkg", "b_test.go">>, TRUE, <<S_pkg, BenchmarkPrefix \o <<"_", "1">>>>)
ExampleFrame == Frame(<<"pkg", "e_test.go">>, TRUE, <<S_pkg, ExamplePrefix \o <<"X">>>>)
ClosureFrame ==
    Frame(<<"pkg", "x_test.go">>, TRUE,
          <<S_pkg, <<"T", "e", "s", "t", "F", "o", "o">>, <<"f", "u", "n", "c", "1">>>>)
HelperFrame == Frame(<<"pkg", "helper.go">>, TRUE, <<S_pkg, <<"h", "e", "l", "p">>>>)
RunnerFrame ==
    Frame(<<"testing", "testing.go">>, TRUE,
          <<<<"t", "e", "s", "t", "i", "n", "g">>, <<"t", "R", "u", "n", "n", "e", "r">>>>)
NoFuncFrame == Frame(<<"pkg", "asm.s">>, FALSE, <<>>)
AutogeneratedFrame == Frame(<<"<autogenerated>">>, TRUE, <<S_pkg, <<"E", "q", "u", "a", "l">>>>)
RequireFrame == Frame(<<"require", "require.go">>, TRUE, <<<<"require">>, <<"Equal">>>>)
MockFrame == Frame(<<"mock", "mock.go">>, TRUE, <<<<"mock">>, <<"Called">>>>)
MockTestFrame ==
    Frame(<<"mock", "mock_test.go">>, TRUE, <<<<"mock">>, <<"h", "e", "l", "p">>>>)
AssertTestFrame ==
    Frame(<<"assert", "assertions_test.go">>, TRUE,
          <<<<"assert">>, <<"T", "e", "s", "t", "E", "q", "u", "a", "l">>>>)

Frames ==
    {TestFrame, BareTestFrame, TestifyFrame, BenchmarkFrame, ExampleFrame,
     ClosureFrame, HelperFrame, RunnerFrame, NoFuncFrame, AutogeneratedFrame,
     RequireFrame, MockFrame, MockTestFrame, AssertTestFrame}

\* Every stack of at most MaxDepth frames.
Stacks == UNION {[1..n -> Frames] : n \in 0..MaxDepth}

\* A test calling the library directly, through a helper, and through the
\* generated wrapper of an embedded method.
UsualStack == <<TestFrame, RunnerFrame>>
SomeStacks == {UsualStack, <<HelperFrame, TestFrame>>, <<AutogeneratedFrame, TestFrame>>}

\* The inputs of the whole library's specification, and those of the
\* specifications of one family of functions.
Narrow ==
    [values |-> SmallValues, slices |-> SmallValues, deltas |-> {F("num", 0), F("num", 1)},
     msgs |-> MsgLists, stacks |-> SomeStacks]
Wide ==
    [values |-> Values, slices |-> SliceSamples, deltas |-> Deltas,
     msgs |-> {<<>>, <<StrV(<<"m">>)>>}, stacks |-> {UsualStack}]

\* The operands of the calls of Equal made at the same time: scalars, slices
\* and maps.
ConcValues ==
    {IntV("int", 1), IntV("int", 2),
     SliceV("[]float64", FALSE, <<Num(1)>>), SliceV("[]float64", FALSE, <<Num(1), Num(2)>>),
     MapV("map[string]string", FALSE, <<<<StrV(<<"a">>), StrV(<<"b">>)>>>>),
     MapV("map[string]string", FALSE,
          <<<<StrV(<<"b">>), StrV(<<"c">>)>>, <<StrV(<<"a">>), StrV(<<"b">>)>>>>)}

\* The inputs of the specification of InEpsilon: numbers of every type, values
\* that are no numbers, and every kind of epsilon.
Relative ==
    [values |-> IntSamples \cup FloatSamples \cup {Nil, StrV(<<"a">>)},
     deltas |-> Deltas \cup {F("inf", 0), F("num", 2)},
     msgs |-> {<<>>, <<StrV(<<"m">>)>>}, stacks |-> {UsualStack}]

\* The inputs of the specification of the messages.
Messages ==
    [values |-> {IntV("int", 1), IntV("uint", 1), Num(1)}, msgs |-> MsgSamples,
     stacks |-> {UsualStack}]

\* --------------------------------------------------------- the state machine

\* The tests that run at the same time.
Tests == {"t1", "t2"}

\* A test between two calls, after calls calls and errs calls of t.Errorf on
\* its sink.
IdleTest(calls, errs) ==
    [pc |-> "idle", expected |-> Nil, actual |-> Nil, e |-> <<>>, a |-> <<>>,
     res |-> "none", calls |-> calls, errs |-> errs]

NoCall == [op |-> "none"]
NoRet == [res |-> "none"]

Init ==
    /\ pc = "idle"
    /\ call = NoCall
    /\ ret = NoRet
    /\ errorfCalls = 0
    /\ falseReturns = 0
    /\ nCalls = 0
    /\ printLocation \in BOOLEAN
    /\ sortKeys = FALSE
    /\ tests = [t \in Tests |-> IdleTest(0, 0)]

\* The test makes one call of the library: the call runs to its end, with
\* every call of t.Errorf it makes, or panics.
CanCall == pc = "idle" /\ nCalls < MaxCalls

Do(c, out) ==
    /\ call' = c
    /\ ret' = out
    /\ pc' = IF out.res = "fault" THEN "faulted" ELSE "returned"
    /\ errorfCalls' = errorfCalls + out.errs
    /\ falseReturns' = falseReturns + (IF out.res = "false" THEN 1 ELSE 0)
    /\ nCalls' = nCalls + 1
    /\ sortKeys' = (sortKeys \/ ("dumped" \in DOMAIN out /\ out.dumped))
    /\ UNCHANGED <<printLocation, tests>>

Env(stack) == [stack |-> stack, printLocation |-> printLocation]

\* The test goes on after a call that returned.
Return ==
    /\ pc = "returned"
    /\ pc' = "idle"
    /\ call' = NoCall
    /\ ret' = NoRet
    /\ UNCHANGED <<errorfCalls, falseReturns, nCalls, printLocation, sortKeys, tests>>

ObjectsAreEqualCall(in) ==
    /\ CanCall
    /\ \E e \in in.values, a \in in.values :
           Do([op |-> "ObjectsAreEqual", expected |-> e, actual |-> a],
              Value(ObjectsAreEqual(e, a)))

ObjectsAreEqualValuesCall(in) ==
    /\ CanCall
    /\ \E e \in in.values, a \in in.values :
           /\ Representable(e, a.type)
           /\ Do([op |-> "ObjectsAreEqualValues", expected |-> e, actual |-> a],
                 Value(ObjectsAreEqualValues(e, a)))

diffCall ==
    /\ CanCall
    /\ \E e \in DiffSamples, a \in DiffSamples :
          Do([op |-> "diff", expected |-> e, actual |-> a],
             Value(diff(e, a)) @@ [dumped |-> DiffDumps(e, a)])

CallerInfoCall ==
    /\ CanCall
    /\ \E st \in Stacks :
           LET r == CallerInfo(st)
           IN  Do([op |-> "CallerInfo", stack |-> st],
                  IF r.fault THEN Fault ELSE Value(r.callers))

FailCall(in) ==
    /\ CanCall
    /\ \E m \in in.msgs, st \in in.stacks :
           Do([op |-> "Fail", msgAndArgs |-> m, stack |-> st],
              Fail(<<>>, Env(st), "failure", m))

EqualCall(in) ==
    /\ CanCall
    /\ \E e \in in.values, a \in in.values, m \in in.msgs, st \in in.stacks :
           Do([op |-> "Equal", expected |-> e, actual |-> a, msgAndArgs |-> m, stack |-> st],
              Equal(<<>>, Env(st), e, a, m))

EqualValuesCall(in) ==
    /\ CanCall
    /\ \E e \in in.values, a \in in.values, m \in in.msgs, st \in in.stacks :
           /\ Representable(e, a.type)
           /\ Do([op |-> "EqualValues", expected |-> e, actual |-> a, msgAndArgs |-> m, stack |-> st],
                 EqualValues(Env(st), e, a, m))

ExactlyCall(in) ==
    /\ CanCall
    /\ \E e \in in.values, a \in in.values, m \in in.msgs, st \in in.stacks :
           Do([op |-> "Exactly", expected |-> e, actual |-> a, msgAndArgs |-> m, stack |-> st],
              Exactly(Env(st), e, a, m))

NotEqualCall(in) ==
    /\ CanCall
    /\ \E e \in in.values, a \in in.values, m \in in.msgs, st \in in.stacks :
           Do([op |-> "NotEqual", expected |-> e, actual |-> a, msgAndArgs |-> m, stack |-> st],
              NotEqual(Env(st), e, a, m))

NilCall(in) ==
    /\ CanCall
    /\ \E o \in in.values, m \in in.msgs, st \in in.stacks :
           Do([op |-> "Nil", object |-> o, msgAndArgs |-> m, stack |-> st],
              NilAssert(Env(st), o, m))

NotNilCall(in) ==
    /\ CanCall
    /\ \E o \in in.values, m \in in.msgs, st \in in.stacks :
           Do([op |-> "NotNil", object |-> o, msgAndArgs |-> m, stack |-> st],
              NotNil(<<>>, Env(st), o, m))

EmptyCall(in) ==
    /\ CanCall
    /\ \E o \in in.values, m \in in.msgs, st \in in.stacks :
           Do([op |-> "Empty", object |-> o, msgAndArgs |-> m, stack |-> st],
              Empty(Env(st), o, m))

NotEmptyCall(in) ==
    /\ CanCall
    /\ \E o \in in.values, m \in in.msgs, st \in in.stacks :
           Do([op |-> "NotEmpty", object |-> o, msgAndArgs |-> m, stack |-> st],
              NotEmpty(Env(st), o, m))

LenCall(in) ==
    /\ CanCall
    /\ \E o \in in.values, n \in 0..2, m \in in.msgs, st \in in.stacks :
           Do([op |-> "Len", object |-> o, length |-> n, msgAndArgs |-> m, stack |-> st],
              LenAssert(Env(st), o, n, m))

ContainsCall(in) ==
    /\ CanCall
    /\ \E e \in in.values, a \in in.values, m \in in.msgs, st \in in.stacks :
           Do([op |-> "Contains", s |-> e, contains |-> a, msgAndArgs |-> m, stack |-> st],
              Contains(Env(st), e, a, m))

NotContainsCall(in) ==
    /\ CanCall
    /\ \E e \in in.values, a \in in.values, m \in in.msgs, st \in in.stacks :
           Do([op |-> "NotContains", s |-> e, contains |-> a, msgAndArgs |-> m, stack |-> st],
              NotContains(Env(st), e, a, m))

ZeroCall(in) ==
    /\ CanCall
    /\ \E o \in in.values, m \in in.msgs, st \in in.stacks :
           Do([op |-> "Zero", object |-> o, msgAndArgs |-> m, stack |-> st],
              Zero(Env(st), o, m))

NotZeroCall(in) ==
    /\ CanCall
    /\ \E o \in in.values, m \in in.msgs, st \in in.stacks :
           Do([op |-> "NotZero", object |-> o, msgAndArgs |-> m, stack |-> st],
              NotZero(Env(st), o, m))

InDeltaCall(in) ==
    /\ CanCall
    /\ \E e \in in.values, a \in in.values, d \in in.deltas,
          m \in in.msgs, st \in in.stacks :
           Do([op |-> "InDelta", expected |-> e, actual |-> a, delta |-> d,
               msgAndArgs |-> m, stack |-> st],
              InDelta(<<>>, Env(st), e, a, d, m))

InEpsilonCall(in) ==
    /\ CanCall
    /\ \E e \in in.values, a \in in.values, d \in in.deltas,
          m \in in.msgs, st \in in.stacks :
           Do([op |-> "InEpsilon", expected |-> e, actual |-> a, delta |-> d,
               msgAndArgs |-> m, stack |-> st],
              InEpsilon(<<>>, Env(st), e, a, d, m))

InDeltaSliceCall(in) ==
    /\ CanCall
    /\ \E e \in in.slices, a \in in.slices, d \in in.deltas,
          m \in in.msgs, st \in in.stacks :
           Do([op |-> "InDeltaSlice", expected |-> e, actual |-> a, delta |-> d,
               msgAndArgs |-> m, stack |-> st],
              InDeltaSlice(Env(st), e, a, d, m))

InEpsilonSliceCall(in) ==
    /\ CanCall
    /\ \E e \in in.slices, a \in in.slices, d \in in.deltas,
          m \in in.msgs, st \in in.stacks :
           Do([op |-> "InEpsilonSlice", expected |-> e, actual |-> a, delta |-> d,
               msgAndArgs |-> m, stack |-> st],
              InEpsilonSlice(Env(st), e, a, d, m))

ErrorCall(in) ==
    /\ CanCall
    /\ \E err \in ErrorSamples, m \in in.msgs, st \in in.stacks :
           Do([op |-> "Error", err |-> err, msgAndArgs |-> m, stack |-> st],
              Error(Env(st), err, m))

EqualErrorCall(in) ==
    /\ CanCall
    /\ \E err \in ErrorSamples, str \in {<<"a">>, <<"b">>}, m \in in.msgs, st \in in.stacks :
           Do([op |-> "EqualError", theError |-> err, errString |-> str,
               msgAndArgs |-> m, stack |-> st],
              EqualError(Env(st), err, str, m))

JSONEqCall(in) ==
    /\ CanCall
    /\ \E e \in JsonTexts, a \in JsonTexts, m \in in.msgs, st \in in.stacks :
           Do([op |-> "JSONEq", expected |-> e, actual |-> a, msgAndArgs |-> m, stack |-> st],
              JSONEq(Env(st), e, a, m))

ConditionCall(in) ==
    /\ CanCall
    /\ \E comp \in BOOLEAN, m \in in.msgs, st \in in.stacks :
           Do([op |-> "Condition", comp |-> comp, msgAndArgs |-> m, stack |-> st],
              Condition(Env(st), comp, m))

\* The equality helpers.
NextEq == ObjectsAreEqualCall(Wide) \/ ObjectsAreEqualValuesCall(Wide) \/ Return
SpecEq == Init /\ [][NextEq]_vars

\* The call site tracer.
NextDiff == diffCall \/ Return
SpecDiff == Init /\ [][NextDiff]_vars

\* Equal(t, expected, actual) in test t, step by step: a test is a goroutine
\* of its own with a sink of its own, and nothing in Equal or diff waits for
\* another goroutine.
Step(t, next) ==
    /\ tests' = [tests EXCEPT ![t] = next]
    /\ UNCHANGED <<pc, call, ret, errorfCalls, falseReturns, nCalls, printLocation>>

\* The comparison, and diff up to its early returns.
EqualBegin(t) ==
    /\ tests[t].pc = "idle"
    /\ tests[t].calls < MaxCalls
    /\ \E e \in ConcValues, a \in ConcValues :
          Step(t, [tests[t] EXCEPT
                      !.pc = IF ObjectsAreEqual(e, a) THEN "return"
                             ELSE IF DiffDumps(e, a) THEN "setSortKeys"
                             ELSE "fail",
                      !.res = IF ObjectsAreEqual(e, a) THEN "true" ELSE "false",
                      !.expected = e,
                      !.actual = a,
                      !.calls = @ + 1])
    /\ UNCHANGED sortKeys

\* spew.Config.SortKeys = true
diffSetSortKeys(t) ==
    /\ tests[t].pc = "setSortKeys"
    /\ sortKeys' = TRUE
    /\ Step(t, [tests[t] EXCEPT !.pc = "dumpExpected"])

\* e := spew.Sdump(expected), which reads spew.Config
diffDumpExpected(t) ==
    /\ tests[t].pc = "dumpExpected"
    /\ Step(t, [tests[t] EXCEPT !.pc = "dumpActual",
                                !.e = Sdump(tests[t].expected, sortKeys)])
    /\ UNCHANGED sortKeys

\* a := spew.Sdump(actual), which reads spew.Config
diffDumpActual(t) ==
    /\ tests[t].pc = "dumpActual"
    /\ Step(t, [tests[t] EXCEPT !.pc = "fail",
                                !.a = Sdump(tests[t].actual, sortKeys)])
    /\ UNCHANGED sortKeys

\* Fail(t, ...), with the call of Errorf on the test's sink
EqualFail(t) ==
    /\ tests[t].pc = "fail"
    /\ Step(t, [tests[t] EXCEPT
                    !.pc = "return",
                    !.errs = @ + Fail(<<"Equal">>, Env(UsualStack), "Not equal", <<>>).errs])
    /\ UNCHANGED sortKeys

EqualReturn(t) ==
    /\ tests[t].pc = "return"
    /\ Step(t, IdleTest(tests[t].calls, tests[t].errs))
    /\ UNCHANGED sortKeys

NextConc ==
    \E t \in Tests :
        \/ EqualBegin(t)
        \/ diffSetSortKeys(t)
        \/ diffDumpExpected(t)
        \/ diffDumpActual(t)
        \/ EqualFail(t)
        \/ EqualReturn(t)
SpecConc == Init /\ [][NextConc]_vars

NextEps == InEpsilonCall(Relative) \/ Return
SpecEps == Init /\ [][NextEps]_vars

NextMsg ==
    \/ FailCall(Messages)
    \/ ExactlyCall(Messages)
    \/ ErrorCall(Messages)
    \/ EqualErrorCall(Messages)
    \/ JSONEqCall(Messages)
    \/ Return
SpecMsg == Init /\ [][NextMsg]_vars

NextTrace == CallerInfoCall \/ Return
SpecTrace == Init /\ [][NextTrace]_vars

\* The numeric assertions.
NextNum ==
    \/ InDeltaCall(Wide)
    \/ InDeltaSliceCall(Wide)
    \/ InEpsilonSliceCall(Wide)
    \/ Return
SpecNum == Init /\ [][NextNum]_vars

\* Containment.
NextContains == ContainsCall(Wide) \/ NotContainsCall(Wide) \/ Return
SpecContains == Init /\ [][NextContains]_vars

\* Emptiness and zero values.
NextEmpty ==
    \/ EmptyCall(Wide)
    \/ NotEmptyCall(Wide)
    \/ ZeroCall(Wide)
    \/ NotZeroCall(Wide)
    \/ Return
SpecEmpty == Init /\ [][NextEmpty]_vars

\* The whole library on one sink.
Next ==
    \/ FailCall(Narrow)
    \/ EqualCall(Narrow)
    \/ EqualValuesCall(Narrow)
    \/ ExactlyCall(Narrow)
    \/ NotEqualCall(Narrow)
    \/ NilCall(Narrow)
    \/ NotNilCall(Narrow)
    \/ EmptyCall(Narrow)
    \/ NotEmptyCall(Narrow)
    \/ LenCall(Narrow)
    \/ ContainsCall(Narrow)
    \/ NotContainsCall(Narrow)
    \/ ZeroCall(Narrow)
    \/ NotZeroCall(Narrow)
    \/ InDeltaCall(Narrow)
    \/ InEpsilonCall(Narrow)
    \/ InDeltaSliceCall(Narrow)
    \/ InEpsilonSliceCall(Narrow)
    \/ ErrorCall(Narrow)
    \/ EqualErrorCall(Narrow)
    \/ JSONEqCall(Narrow)
    \/ ConditionCall(Narrow)
    \/ Return
Spec == Init /\ [][Next]_vars

\* ------------------------------------------------------------------ claims

Wrappers ==
    {"Equal", "EqualValues", "Exactly", "NotEqual", "Nil", "NotNil", "Empty",
     "NotEmpty", "Len", "Contains", "NotContains", "Zero", "NotZero", "InDelta",
     "InEpsilon", "InDeltaSlice", "InEpsilonSlice", "EqualError", "JSONEq",
     "Condition"}

\* C1: every call of Fail, whatever its msgAndArgs (none, one argument of any
\* type, several), completes without a fault, calls t.Errorf exactly once and
\* returns false.  Stated for a test that calls Fail directly.
C1_FailReportsOnce ==
    (call.op = "Fail" /\ call.stack = UsualStack)
        => (pc = "returned" /\ ret.res = "false" /\ ret.errs = 1)

\* C2: every call of an assertion wrapper returns, false exactly when it
\* called t.Errorf once and true exactly when it called it not at all; so the
\* calls of t.Errorf on a sink are as many as the calls that returned false.
C2_ErrorfIffFalse ==
    /\ errorfCalls = falseReturns
    /\ (call.op \in Wrappers /\ call.stack = UsualStack)
          => /\ pc = "returned"
             /\ ret.res = "false" <=> ret.errs = 1
             /\ ret.res = "true" <=> ret.errs = 0

\* C3: ObjectsAreEqual is true exactly when both arguments are the untyped
\* nil, or neither is and they are deeply equal; it is false when exactly one
\* is the untyped nil (a typed nil pointer on the other side included), and
\* it gives the same answer with its arguments exchanged.
C3_StrictEqual ==
    (pc = "returned" /\ call.op = "ObjectsAreEqual")
        => LET e == call.expected
               a == call.actual
           IN  /\ ret.value = (\/ IsNilIface(e) /\ IsNilIface(a)
                               \/ ~IsNilIface(e) /\ ~IsNilIface(a) /\ DeepEqual(e, a))
               /\ IsNilIface(e) # IsNilIface(a) => ret.value = FALSE
               /\ ret.value = ObjectsAreEqual(a, e)

\* ObjectsAreEqual(nil, (*int)(nil)) has returned false.
C3_Witness ==
    /\ pc = "returned"
    /\ call.op = "ObjectsAreEqual"
    /\ IsNilIface(call.expected)
    /\ call.actual.type = "*int"
    /\ call.actual.val.addr = 0
    /\ ret.value = FALSE

\* Whether type T holds the integer n.
InRange(n, T) ==
    IF T \in UnsignedTypes
    THEN n >= 0 /\ (Width(T) >= 32 \/ n < 2 ^ Width(T))
    ELSE Width(T) >= 32 \/ (0 - 2 ^ (Width(T) - 1) <= n /\ n < 2 ^ (Width(T) - 1))

\* Whether v converts to type T with its value kept.
LosslessTo(v, T) ==
    /\ ConvertibleTo(v.type, T)
    /\ v.type \in IntegerTypes /\ T \in IntegerTypes => InRange(v.val, T)
    /\ v.type \in FloatTypes /\ T \in IntegerTypes => InRange(v.val.n, T)

\* C4: ObjectsAreEqualValues is true exactly when ObjectsAreEqual holds, or
\* actual has a type, expected converts to it without loss and the converted
\* value is strictly equal to actual: two integers are never reported equal
\* when the conversion changes expected's value.
C4_ValueEqualLossless ==
    (pc = "returned" /\ call.op = "ObjectsAreEqualValues")
        => LET e == call.expected
               a == call.actual
           IN  ret.value = (\/ ObjectsAreEqual(e, a)
                            \/ /\ ~IsNilIface(a)
                               /\ ~IsNilIface(e)
                               /\ LosslessTo(e, a.type)
                               /\ DeepEqual(Convert(e, a.type), a))

\* The float64 of a numeric operand, and |x - y| <= d on float64.
AsFloat(v) == IF v.type \in IntegerTypes THEN F("num", v.val) ELSE v.val
FAbs(x) == IF FLt(x, F("num", 0)) THEN FNeg(x) ELSE x
FLe(x, y) == FLt(x, y) \/ FloatEq(x, y)

\* C5: InDelta fails with "Parameters must be numerical" exactly when an
\* operand is of no integer or float type (every width and signedness is
\* numeric), fails when an operand is NaN, and for every other pair returns
\* true exactly when |expected - actual| <= delta.
C5_InDelta ==
    call.op = "InDelta"
        => LET e == call.expected
               a == call.actual
               nonNumeric == e.type \notin NumericTypes \/ a.type \notin NumericTypes
           IN  /\ pc = "returned"
               /\ nonNumeric <=> /\ ret.res = "false"
                                 /\ ret.reports[1].error = "Parameters must be numerical"
               /\ ~nonNumeric =>
                     IF AsFloat(e).cls = "nan" \/ AsFloat(a).cls = "nan"
                     THEN ret.res = "false"
                     ELSE ret.res = "true"
                              <=> FLe(FAbs(FSub(AsFloat(e), AsFloat(a))), call.delta)

\* C6: InDeltaSlice and InEpsilonSlice complete without a fault on every pair
\* of arguments, slices of different lengths included; on slices of equal
\* length they return true exactly when every pair of elements at the same
\* index passes the scalar check, and report the first failing pair only.
C6_SlicesTotal ==
    call.op \in {"InDeltaSlice", "InEpsilonSlice"}
        => LET e == call.expected
               a == call.actual
               env == [stack |-> call.stack, printLocation |-> printLocation]
               passes(i) ==
                   IF call.op = "InDeltaSlice"
                   THEN InDelta(<<>>, env, a.val.elems[i], e.val.elems[i],
                                call.delta, <<>>).res = "true"
                   ELSE InEpsilon(<<>>, env, a.val.elems[i], e.val.elems[i],
                                  call.delta, <<>>).res = "true"
           IN  /\ pc = "returned"
               /\ ret.res \in {"true", "false"}
               /\ ret.errs <= 1
               /\ (/\ Kind(e.type) = "Slice"
                   /\ Kind(a.type) = "Slice"
                   /\ Len(e.val.elems) = Len(a.val.elems))
                     => (ret.res = "true" <=> \A i \in 1..Len(a.val.elems) : passes(i))

\* C7: Contains returns true exactly when s is a string and the element a
\* substring of it, or s is a map and the element strictly equal to one of
\* its keys, or s is a slice or an array and the element strictly equal to
\* one of its elements; for any other s it reports a failure and returns
\* false, and it never faults.  An element that is no string is never in a
\* string.
C7_Contains ==
    call.op = "Contains"
        => LET s == call.s
               x == call.contains
               member ==
                   CASE Kind(s.type) = "String" ->
                            x.type = "string" /\ StringsContains(s.val, x.val)
                     [] Kind(s.type) = "Map" ->
                            \E i \in 1..Len(s.val.entries) :
                                ObjectsAreEqual(s.val.entries[i][1], x)
                     [] Kind(s.type) = "Slice" ->
                            \E i \in 1..Len(s.val.elems) : ObjectsAreEqual(s.val.elems[i], x)
                     [] Kind(s.type) = "Array" ->
                            \E i \in 1..Len(s.val) : ObjectsAreEqual(s.val[i], x)
                     [] OTHER -> FALSE
           IN  /\ pc = "returned"
               /\ ret.res = "true" <=> member
               /\ ret.res = "false" <=> ret.errs = 1

\* The values the claim lists as empty.
InEmptyList(v) ==
    \/ IsNilIface(v)
    \/ v.type = "string" /\ Len(v.val) = 0
    \/ v.type = "bool" /\ v.val = FALSE
    \/ v.type \in IntegerTypes /\ v.val = 0
    \/ v.type \in FloatTypes /\ v.val.cls = "num" /\ v.val.n = 0
    \/ Kind(v.type) = "Slice" /\ Len(v.val.elems) = 0
    \/ Kind(v.type) = "Map" /\ Len(v.val.entries) = 0
    \/ Kind(v.type) = "Chan" /\ v.val.len = 0
    \/ Kind(v.type) = "Ptr" /\ v.val.addr = 0
    \/ /\ v.type = "*time.Time"
       /\ v.val.addr # 0
       /\ \A i \in 1..Len(v.val.elem.val) : v.val.elem.val[i].val = 0

InSpecZeroList(v) ==
    \/ IsNilIface(v)
    \/ v.type = "string" /\ Len(v.val) = 0
    \/ v.type = "bool" /\ v.val = FALSE
    \/ v.type \in IntegerTypes /\ v.val = 0
    \/ v.type \in FloatTypes /\ v.val.cls = "num" /\ v.val.n = 0
    \/ Kind(v.type) = "Slice" /\ Len(v.val.elems) = 0
    \/ Kind(v.type) = "Map" /\ Len(v.val.entries) = 0
    \/ Kind(v.type) = "Chan" /\ v.val.len = 0
    \/ Kind(v.type) = "Ptr" /\ v.val.addr = 0
    \/ Kind(v.type) = "Struct" /\ \A i \in 1..Len(v.val) : v.val[i].val = 0

\* C9 as claimed: Zero returns true exactly for the values of the list, and
\* NotZero is its negation.
C9_ZeroBySpecList ==
    /\ call.op = "Zero" => (ret.res = "true" <=> InSpecZeroList(call.object))
    /\ call.op = "NotZero" => (ret.res = "true" <=> ~InSpecZeroList(call.object))

\* Whether a value is the zero value of its type: a nil slice, map, channel
\* or pointer, and a struct or an array of zero values.
RECURSIVE IsZeroValue(_)
IsZeroValue(v) ==
    CASE v.type = "string" -> Len(v.val) = 0
      [] v.type = "bool" -> v.val = FALSE
      [] v.type \in IntegerTypes -> v.val = 0
      [] v.type \in FloatTypes -> v.val.cls = "num" /\ v.val.n = 0
      [] Kind(v.type) \in {"Slice", "Map"} -> v.val.isNil
      [] Kind(v.type) = "Chan" -> v.val.id = 0
      [] Kind(v.type) = "Ptr" -> v.val.addr = 0
      [] Kind(v.type) \in {"Struct", "Array"} ->
            \A i \in 1..Len(v.val) : IsZeroValue(v.val[i])

\* C9, amended: Zero returns true exactly for nil and for the zero value of a
\* type (the empty string, false, a numeric zero, a nil slice, map, channel or
\* pointer, a struct or an array of zero values), so not for a slice, map or
\* channel of length zero that is not nil; NotZero is its negation.
C9_ZeroIsTypeZero ==
    /\ call.op = "Zero"
          => /\ pc = "returned"
             /\ ret.res = "true" <=> (IsNilIface(call.object) \/ IsZeroValue(call.object))
    /\ call.op = "NotZero"
          => /\ pc = "returned"
             /\ ret.res = "true" <=> ~(IsNilIface(call.object) \/ IsZeroValue(call.object))

\* Zero has failed on a slice of length zero that is not nil.
C9_Witness ==
    /\ pc = "returned"
    /\ call.op = "Zero"
    /\ Kind(call.object.type) = "Slice"
    /\ ~call.object.val.isNil
    /\ Len(call.object.val.elems) = 0
    /\ ret.res = "false"

\* The stack CallerInfo walked, and the frame a trace entry names.
WalkedStack == Numbered(<<LibFrame("CallerInfo")>> \o call.stack)
IndexOfLine(line) == Len(WalkedStack) - line + 1
DirOf(f) == f.parts[Len(f.parts) - 1]
FileOf(f) == f.parts[Len(f.parts)]

\* The test-entry pattern on a function's name, its package dropped: Test,
\* Benchmark or Example, then nothing or a character that is no lower-case
\* letter.
MatchesTestEntry(f) ==
    /\ f.hasFunc
    /\ f.parts # <<"<autogenerated>">>
    /\ LET name == f.segments[Len(f.segments)]
       IN  \E p \in {TestPrefix, BenchmarkPrefix, ExamplePrefix} :
               /\ HasPrefix(name, p)
               /\ Len(name) = Len(p) \/ name[Len(p) + 1] \notin LowerLetters

\* Every trace entry names a frame of the stack, none further out than the
\* first test entry, and the entries are in stack order.
TraceWithinTest ==
    /\ \A k \in 1..Len(ret.value) :
          /\ IndexOfLine(ret.value[k].line) \in 1..Len(WalkedStack)
          /\ ret.value[k].file = FileOf(WalkedStack[IndexOfLine(ret.value[k].line)])
          /\ \A j \in 1..(IndexOfLine(ret.value[k].line) - 1) :
                ~MatchesTestEntry(WalkedStack[j])
    /\ \A k \in 1..(Len(ret.value) - 1) : ret.value[k].line > ret.value[k + 1].line

\* C10 as claimed: the trace holds no frame of the directories assert, mock
\* and require, none further out than the first test entry, and is in stack
\* order.
C10_NoLibraryFrame ==
    (pc = "returned" /\ call.op = "CallerInfo")
        => /\ TraceWithinTest
           /\ \A k \in 1..Len(ret.value) :
                 DirOf(WalkedStack[IndexOfLine(ret.value[k].line)]) \notin LibraryDirs

\* C10, amended: the trace holds no frame of the directories assert, mock and
\* require but those of a file mock_test.go, none further out than the first
\* test entry, and is in stack order.
C10_TraceExternal ==
    (pc = "returned" /\ call.op = "CallerInfo")
        => /\ TraceWithinTest
           /\ \A k \in 1..Len(ret.value) :
                 \/ DirOf(WalkedStack[IndexOfLine(ret.value[k].line)]) \notin LibraryDirs
                 \/ ret.value[k].file = "mock_test.go"

\* CallerInfo has returned a trace with a frame of mock/mock_test.go and the
\* test's frame, from a stack that goes on below the test.
C10_Witness ==
    /\ pc = "returned"
    /\ call.op = "CallerInfo"
    /\ call.stack = <<MockTestFrame, TestFrame, RunnerFrame>>
    /\ Len(ret.value) = 2
    /\ ret.value[1].file = "mock_test.go"

\* The kind diff looks at: the kind of a value, the kind of what it points to
\* for a pointer.
KindBehind(v) == IF v.type \in PtrTypes THEN Kind(Elem(v.type)) ELSE Kind(v.type)

\* Whether a text has a line that holds the label.
HasLabel(text, label) ==
    \E i \in 1..Len(text) : \E j \in 1..Len(text[i]) : text[i][j] = label

\* C11: diff returns the empty string when a value is nil, when the concrete
\* types of the two differ (a pointer to T against a T included) and when the
\* kind, a pointer followed, is not struct, map, slice or array; for two
\* different values of one composite type it returns a text that is not empty
\* and holds the labels Expected and Actual.
C11_DiffOnlySameComposite ==
    (pc = "returned" /\ call.op = "diff")
        => LET e == call.expected
               a == call.actual
               composite == {"Struct", "Map", "Slice", "Array"}
           IN  /\ IsNilIface(e) \/ IsNilIface(a) => ret.value = <<>>
               /\ (~IsNilIface(e) /\ ~IsNilIface(a))
                     => /\ e.type # a.type => ret.value = <<>>
                        /\ KindBehind(e) \notin composite => ret.value = <<>>
                        /\ (/\ e.type = a.type
                            /\ KindBehind(e) \in composite
                            /\ ~DeepEqual(e, a)
                            /\ e # a)
                              => /\ ret.value # <<>>
                                 /\ HasLabel(ret.value, "Expected")
                                 /\ HasLabel(ret.value, "Actual")

\* C12: the report of a failure holds no Messages section when no message
\* argument is given, the one argument as it is, no verb of it replaced, when
\* one is given, and the first argument formatted with the others when two
\* or more are given; so also for Error, EqualError, Exactly and JSONEq,
\* which hand their message arguments on.  Stated for message arguments the
\* first of which is a string.
C12_UserMessage ==
    (/\ call.op \in {"Fail", "Error", "EqualError", "Exactly", "JSONEq"}
     /\ ret.errs = 1
     /\ Len(call.msgAndArgs) > 0 => call.msgAndArgs[1].type = "string")
        => LET m == call.msgAndArgs
               report == ret.reports[1]
           IN  /\ Len(m) = 0 => report.format = "plain" /\ report.message = <<>>
               /\ Len(m) = 1 => report.message = m[1].val
               /\ Len(m) > 1 => report.message = Sprintf(m[1].val, SubSeq(m, 2, Len(m)))
               /\ report.format = "messages" <=> Len(report.message) > 0

\* Whether test t is about to write, or to read, the variable of package spew.
WritesShared(t) == tests[t].pc = "setSortKeys"
ReadsShared(t) == tests[t].pc \in {"dumpExpected", "dumpActual"}

\* C13: when two tests call the library at the same time, each on its own
\* sink, never are two of them about to access the same shared variable, one
\* of them to write it: the library writes no variable that is not local to
\* the call.
C13_NoSharedAccess ==
    \A t \in Tests, u \in Tests :
        t # u => ~(WritesShared(t) /\ (WritesShared(u) \/ ReadsShared(u)))

\* math.Min on float64
FMin(x, y) ==
    IF x.cls = "nan" \/ y.cls = "nan" THEN F("nan", 0)
    ELSE IF FLt(x, y) THEN x ELSE y

\* C14: InEpsilon returns what InDelta returns with delta = min(|expected|,
\* |actual|) * epsilon, and with delta = 0 when an operand is no number; so
\* with an operand that is zero it succeeds only if the operands are equal,
\* and with an operand that is no number it reports a failure and does not
\* fault.
C14_InEpsilonAsInDelta ==
    call.op = "InEpsilon"
        => LET e == call.expected
               a == call.actual
               numeric == e.type \in NumericTypes /\ a.type \in NumericTypes
               delta == IF numeric
                        THEN FMul(FMin(FAbs(AsFloat(e)), FAbs(AsFloat(a))), call.delta)
                        ELSE F("num", 0)
               same == InDelta(<<>>, [stack |-> call.stack, printLocation |-> printLocation],
                               e, a, delta, call.msgAndArgs)
               isZero(v) == AsFloat(v).cls = "num" /\ AsFloat(v).n = 0
           IN  /\ pc = "returned"
               /\ ret.res = same.res
               /\ ret.reports = same.reports
               /\ (numeric /\ (isZero(e) \/ isZero(a)) /\ ret.res = "true")
                     => FloatEq(AsFloat(e), AsFloat(a))
               /\ ~numeric => ret.res = "false" /\ ret.errs = 1

\* Whether the walk goes on after the frame: it is no generated frame, has a
\* function, and that is no test entry.
GoesOn(f) ==
    /\ f.parts # <<"<autogenerated>">>
    /\ f.hasFunc
    /\ ~MatchesTestEntry(f)

\* The trace entries of the external frames among the first k of the walked
\* stack.
Collected(k) ==
    LET external(f) == DirOf(f) \notin LibraryDirs \/ FileOf(f) = "mock_test.go"
        kept == SelectSeq(SubSeq(WalkedStack, 1, k), external)
    IN  [i \in 1..Len(kept) |-> [file |-> FileOf(kept[i]), line |-> kept[i].line]]

\* C15: CallerInfo returns on every stack, and when it cannot go on, the
\* stack being at its end before a test entry was met or the next frame's file
\* being <autogenerated>, it returns the external frames collected up to
\* there: none more, none less.
C15_StopsWithCollected ==
    call.op = "CallerInfo"
        => /\ pc = "returned"
           /\ (\A j \in 1..Len(WalkedStack) : GoesOn(WalkedStack[j]))
                 => ret.value = Collected(Len(WalkedStack))
           /\ \A k \in 1..Len(WalkedStack) :
                 (/\ WalkedStack[k].parts = <<"<autogenerated>">>
                  /\ \A j \in 1..(k - 1) : GoesOn(WalkedStack[j]))
                       => ret.value = Collected(k - 1)

====
